---- MODULE Spec2Model ----
(***************************************************************************)
(* Model of the iamzero-python event pipeline: Client (client.py),         *)
(* Publisher and its control loop (publisher.py), Identity and             *)
(* IdentityFetcher (identity.py), Event (event.py).                        *)
(*                                                                         *)
(* Threads: producers (Client.send), one controller thread calling         *)
(* Client.flush / Client.close, the Publisher._sender thread, the          *)
(* IdentityFetcher._sender thread and the application reading the          *)
(* response queue.                                                         *)
(***************************************************************************)
EXTENDS Integers, Sequences, FiniteSets, TLC

(* ---------------------------- bounds ---------------------------------- *)
\* events created by producers
MaxEvents == 3
\* Client.flush() calls
MaxFlushes == 1
\* fetch_identity calls carrying credentials
MaxIdRequests == 1
\* maxsize of Publisher.pending (1000 in the source), scaled down
PendingMaxsize == 2
\* maxsize of Publisher.responses (2000 in the source), scaled down
ResponsesMaxsize == 2
\* config["max_batch_size"] (default 100), scaled down
max_batch_size == 1
\* fetch_identity calls carrying credentials when the application creates
\* many instrumented clients and sends no event
MaxIdBurst == 7
\* fetch_identity calls carrying credentials when the credentials of a
\* sending application are looked up again
MaxIdRefresh == 2

(* -------------------------- program constants ------------------------- *)
\* maxsize of IdentityFetcher.pending
IdQueueMaxsize == 5

\* Python None, as a queue item and as an Identity field
None == 0
\* the None put on the response queue by Publisher.close
NoneMarker == [none |-> TRUE]

\* Event defines only `data` and `created_at`: it has no attribute `metadata`
EventHasMetadata == FALSE

\* response bodies
EmptyBody == ""
BodyWithAlertIDs == "json{alertIDs}"
BodyWithoutAlertIDs == "json{}"
SQSResult == "sqs-result"

\* errors carried by a response record
NoError == "None"
NoIdentityException == "NoIdentityException"
TransportException == "TransportException"
KeyErrorAlertIDs == "KeyError"
QueueOverflow == "event dropped; queue overflow"

\* status codes a transport can return without raising
ReturnedStatus == {200}

VARIABLES
    \* Publisher configuration
    block_on_send, block_on_response, quiet, transport_type,
    \* Publisher queues; taken = records the application has read
    pending, responses, taken,
    \* Publisher._sender thread
    senderPc, events, overdue, shutdown, todo, notified,
    \* what the last Transport.send call of the running flush did
    transport_result,
    \* history: the payloads handed to Transport.send, the events that went
    \* through _send_batch, whether a response record was dropped on a full
    \* response queue, the events that had been accepted when the
    \* Client.flush() call in progress began
    sends, flushed, resp_dropped, enqueued_before,
    \* Identity
    user, role, account, error,
    \* IdentityFetcher
    idPending, idPc, idCur, idRequests,
    \* Client and its controller thread
    publisher, clPc, clOp, flushes,
    \* producers
    nextEv, accepted, send_raised

cfgVars == <<block_on_send, block_on_response, quiet, transport_type>>
queueVars == <<pending, responses, taken>>
senderVars == <<senderPc, events, overdue, shutdown, todo, notified,
                transport_result>>
histVars == <<sends, flushed, resp_dropped, enqueued_before>>
identityVars == <<user, role, account, error>>
fetcherVars == <<idPending, idPc, idCur, idRequests>>
clientVars == <<publisher, clPc, clOp, flushes>>
producerVars == <<nextEv, accepted, send_raised>>

vars == <<cfgVars, queueVars, senderVars, histVars, identityVars,
          fetcherVars, clientVars, producerVars>>

(* ----------------------------- helpers -------------------------------- *)
Last(s) == s[Len(s)]

Range(s) == {s[k] : k \in 1..Len(s)}

\* the response stream: everything ever put on Publisher.responses, in order
Stream == taken \o responses

\* the dict built by _enqueue_response and by Publisher.send
Response(status_code, body, err, metadata) ==
    [status_code |-> status_code, body |-> body, error |-> err,
     metadata |-> metadata]

\* a record of the payload built by _send_batch
PayloadRecord(ev) ==
    [ev |-> ev, user |-> user, role |-> role, account |-> account]

\* variant: the payload lists the batch from its last event to its first
Payload_Reversed(evs) ==
    [k \in 1..Len(evs) |-> PayloadRecord(evs[Len(evs) + 1 - k])]

\* `payload = []; for ev in events: payload.append({...})`
Payload(evs) == [k \in 1..Len(evs) |-> PayloadRecord(evs[k])]


(* ------------------------------ Init ---------------------------------- *)
\* state after Client.__init__: both background threads started
Init ==
    /\ block_on_send \in BOOLEAN
    /\ block_on_response \in BOOLEAN
    /\ quiet \in BOOLEAN
    /\ transport_type \in {"http", "sqs"}
    /\ pending = <<>>
    /\ responses = <<>>
    /\ taken = <<>>
    /\ senderPc = "start"
    /\ events = <<>>
    /\ overdue = FALSE
    /\ shutdown = FALSE
    /\ todo = <<>>
    /\ notified = FALSE
    /\ transport_result = "none"
    /\ sends = <<>>
    /\ flushed = {}
    /\ resp_dropped = FALSE
    /\ enqueued_before = {}
    /\ user = None
    /\ role = None
    /\ account = None
    /\ error = None
    /\ idPending = <<>>
    /\ idPc = "get"
    /\ idCur = None
    /\ idRequests = 0
    /\ publisher = TRUE
    /\ clPc = "idle"
    /\ clOp = "none"
    /\ flushes = 0
    /\ nextEv = 0
    /\ accepted = {}
    /\ send_raised = FALSE

(* ------------------------- Publisher.send ----------------------------- *)
\* variant: a full queue evicts its oldest record for the new one
ResponsesPut_Evict(q, resp) ==
    IF Len(q) < ResponsesMaxsize THEN Append(q, resp)
    ELSE Append(Tail(q), resp)

\* put / put_nowait of a response record on Publisher.responses:
\* the queue after the call (a blocking put is only taken with room)
ResponsesPut(q, resp) ==
    IF Len(q) < ResponsesMaxsize THEN Append(q, resp) ELSE q

ResponsesFull == Len(responses) >= ResponsesMaxsize

\* a blocking put on the response queue has to wait
ResponsesPutBlocks == block_on_response /\ ResponsesFull

\* variant: put_nowait also when block_on_send is set
PublisherSend_NeverBlocks(ev) ==
    IF Len(pending) < PendingMaxsize
    THEN /\ pending' = Append(pending, ev)
         /\ accepted' = accepted \cup {ev}
         /\ UNCHANGED <<responses, resp_dropped, send_raised>>
    ELSE /\ send_raised' = TRUE
         /\ UNCHANGED <<responses, resp_dropped, pending, accepted>>

\* Publisher.send(ev)
PublisherSend(ev) ==
    IF Len(pending) < PendingMaxsize
    THEN /\ pending' = Append(pending, ev)
         /\ accepted' = accepted \cup {ev}
         /\ UNCHANGED <<responses, resp_dropped, send_raised>>
    ELSE \* queue.Full
         /\ ~block_on_send
         /\ IF EventHasMetadata
            THEN /\ ~ResponsesPutBlocks
                 /\ responses' = ResponsesPut(responses,
                        Response(0, EmptyBody, QueueOverflow, ev))
                 /\ resp_dropped' = (resp_dropped \/ ResponsesFull)
                 /\ UNCHANGED send_raised
            ELSE \* ev.metadata raises AttributeError inside the handler
                 /\ send_raised' = TRUE
                 /\ UNCHANGED <<responses, resp_dropped>>
         /\ UNCHANGED <<pending, accepted>>

\* Client.send(event): on a closed client the event is logged and ignored
ClientSend ==
    /\ nextEv < MaxEvents
    /\ IF publisher
       THEN /\ nextEv' = nextEv + 1
            /\ PublisherSend(nextEv + 1)
       ELSE UNCHANGED <<nextEv, pending, responses, resp_dropped, accepted,
                        send_raised>>
    /\ UNCHANGED <<cfgVars, taken, senderVars, sends, flushed,
                   enqueued_before, identityVars, fetcherVars, clientVars>>

(* ------------------------ Publisher._sender --------------------------- *)
\* Identity.mutex is held by the identity worker inside Identity.set
MutexFree == idPc \notin {"set_role", "set_account"}

\* `with self.identity.initialized:` then wait(timeout=5.0) begins
SenderBeginWait ==
    /\ senderPc = "start"
    /\ MutexFree
    /\ senderPc' = "waiting"
    /\ notified' = FALSE
    /\ UNCHANGED <<cfgVars, queueVars, events, overdue, shutdown, todo,
                   transport_result, histVars, identityVars, fetcherVars, clientVars,
                   producerVars>>

\* variant: wait() without timeout, left only when notified
SenderWake_Unbounded ==
    /\ senderPc = "waiting"
    /\ notified
    /\ MutexFree
    /\ senderPc' = "loop"
    /\ UNCHANGED <<cfgVars, queueVars, events, overdue, shutdown, todo,
                   notified, transport_result, histVars, identityVars,
                   fetcherVars, clientVars, producerVars>>

\* wait returns: notified (notified = TRUE) or after the 5 s timeout
SenderWake ==
    /\ senderPc = "waiting"
    /\ MutexFree
    /\ senderPc' = "loop"
    /\ UNCHANGED <<cfgVars, queueVars, events, overdue, shutdown, todo,
                   notified, transport_result, histVars, identityVars, fetcherVars, clientVars,
                   producerVars>>

\* the clock passes last_flush + send_frequency
\* (overdue = time.time() - last_flush > self.send_frequency)
Tick ==
    /\ senderPc \in {"start", "waiting", "loop"}
    /\ ~overdue
    /\ overdue' = TRUE
    /\ UNCHANGED <<cfgVars, queueVars, senderPc, events, shutdown, todo,
                   notified, transport_result, histVars, identityVars, fetcherVars, clientVars,
                   producerVars>>

\* variant: no size trigger, only the time trigger
FlushDue_TimeOnly(evs) == overdue

\* variant: the size trigger fires when the batch reaches max_batch_size
FlushDue_AtSize(evs) == Len(evs) >= max_batch_size \/ overdue

\* the condition of the `if` after events.append(ev)
FlushDue(evs) == Len(evs) > max_batch_size \/ overdue

\* variant: the thread returns on the sentinel without flushing its batch
OnSentinel_NoFlush(evs) == "done"

\* variant: _flush sends whatever batch it is given, also an empty one
OnSentinel_AlwaysFlush(evs) == "flush"

\* `if ev is None: self._flush(events); return`: where the thread goes,
\* _flush returns at once on an empty batch
OnSentinel(evs) == IF evs = <<>> THEN "done" ELSE "flush"

\* ev = self.pending.get(timeout=self.send_frequency) returns an item
SenderGet ==
    /\ senderPc = "loop"
    /\ pending # <<>>
    /\ pending' = Tail(pending)
    /\ IF Head(pending) = None
       THEN \* self._flush(events); return
            /\ senderPc' = OnSentinel(events)
            /\ shutdown' = (senderPc' = "flush")
            /\ UNCHANGED events
       ELSE /\ events' = Append(events, Head(pending))
            /\ senderPc' = IF FlushDue(events') THEN "flush" ELSE "loop"
            /\ UNCHANGED shutdown
    /\ UNCHANGED <<cfgVars, responses, taken, overdue, todo, notified,
                   transport_result, histVars, identityVars, fetcherVars, clientVars,
                   producerVars>>

\* the get raises queue.Empty: self._flush(events), an empty batch is a no-op
SenderTimeout ==
    /\ senderPc = "loop"
    /\ pending = <<>>
    /\ IF events = <<>>
       THEN overdue' = FALSE /\ UNCHANGED senderPc
       ELSE senderPc' = "flush" /\ UNCHANGED overdue
    /\ UNCHANGED <<cfgVars, queueVars, events, shutdown, todo, notified,
                   transport_result, histVars, identityVars, fetcherVars, clientVars,
                   producerVars>>

\* the guard of the alert log in _enqueue_response
AlertPath(status_code) ==
    /\ 200 <= status_code
    /\ status_code < 300
    /\ ~quiet
    /\ transport_type = "http"

\* body["alertIDs"] succeeds
HasAlertIDs(body) == body = BodyWithAlertIDs

\* _enqueue_response raises before it reaches the put
EnqueueResponseRaises(status_code, body) ==
    AlertPath(status_code) /\ ~HasAlertIDs(body)

\* variant: one failure record for the whole batch
ErrorRecords_LastOnly(status_code, err, evs) ==
    << Response(status_code, EmptyBody, err, Last(evs)) >>

\* the records _enqueue_errors hands to _enqueue_response, one per event
ErrorRecords(status_code, err, evs) ==
    [k \in 1..Len(evs) |-> Response(status_code, EmptyBody, err, evs[k])]

\* what Transport.send can return for the configured transport
TransportReturns ==
    IF transport_type = "http"
    THEN ReturnedStatus \X {BodyWithAlertIDs, BodyWithoutAlertIDs}
    ELSE ReturnedStatus \X {SQSResult}

\* the records _send_batch enqueues after Transport.send returned
\* (status_code, body): one record, for the loop variable ev left over
\* from building the payload
SuccessRecords(status_code, body, evs) ==
    << Response(status_code, body, NoError, Last(evs)) >>

\* variant: the gate tests the user instead of the role
IdentityUnavailable_User == user = None

\* `if self.identity.role is None`
IdentityUnavailable == role = None

\* _send_batch(events) up to the first put on the response queue
SendBatch ==
    /\ senderPc = "flush"
    /\ flushed' = flushed \cup Range(events)
    /\ IF IdentityUnavailable
       THEN /\ todo' = ErrorRecords(0, NoIdentityException, events)
            /\ senderPc' = "put"
            /\ UNCHANGED <<sends, events, transport_result>>
       ELSE /\ sends' = Append(sends, Payload(events))
            /\ \/ \* Transport.send raises: status_code is still 0
                  /\ transport_result' = "raised"
                  /\ todo' = ErrorRecords(0, TransportException, events)
                  /\ senderPc' = "put"
                  /\ UNCHANGED events
               \/ \E ret \in TransportReturns :
                    /\ transport_result' = "returned"
                    /\ IF ~EnqueueResponseRaises(ret[1], ret[2])
                       THEN /\ todo' = SuccessRecords(ret[1], ret[2], events)
                            /\ senderPc' = "put"
                            /\ UNCHANGED events
                       ELSE \* KeyError is caught by `except Exception`,
                            \* then _enqueue_errors(status_code, e, ...)
                            IF EnqueueResponseRaises(ret[1], EmptyBody)
                            THEN \* indexing the body "" raises TypeError
                                 \* outside the try: the thread dies
                                 /\ todo' = <<>>
                                 /\ events' = <<>>
                                 /\ senderPc' = "crashed"
                            ELSE /\ todo' = ErrorRecords(ret[1],
                                               KeyErrorAlertIDs, events)
                                 /\ senderPc' = "put"
                                 /\ UNCHANGED events
    /\ UNCHANGED <<cfgVars, queueVars, overdue, shutdown, notified,
                   resp_dropped, enqueued_before, identityVars, fetcherVars,
                   clientVars, producerVars>>

\* variant: the batch is kept after a flush attempt
BatchAfterFlush_Kept(evs) == evs

\* `events = []` after self._flush(events)
BatchAfterFlush(evs) == <<>>

\* one _enqueue_response call reaching its put; after the last one
\* _send_batch returns to _sender
EnqueueResponse ==
    /\ senderPc = "put"
    /\ todo # <<>>
    /\ ~ResponsesPutBlocks
    /\ responses' = ResponsesPut(responses, Head(todo))
    /\ resp_dropped' = (resp_dropped \/ ResponsesFull)
    /\ todo' = Tail(todo)
    /\ IF Tail(todo) # <<>>
       THEN UNCHANGED <<senderPc, events, overdue, transport_result>>
       ELSE /\ events' = BatchAfterFlush(events)
            /\ transport_result' = "none"
            /\ IF shutdown
               THEN senderPc' = "done" /\ UNCHANGED overdue
               ELSE senderPc' = "loop" /\ overdue' = FALSE
    /\ UNCHANGED <<cfgVars, pending, taken, shutdown, notified, sends,
                   flushed, enqueued_before, identityVars, fetcherVars,
                   clientVars, producerVars>>

\* the application reads one record from Client.responses(); a read of a
\* queue that is not full changes nothing for the other threads, so reads
\* are taken when the queue is full
ResponsesGet ==
    /\ Len(responses) >= ResponsesMaxsize
    /\ taken' = Append(taken, Head(responses))
    /\ responses' = Tail(responses)
    /\ UNCHANGED <<cfgVars, pending, senderVars, histVars, identityVars,
                   fetcherVars, clientVars, producerVars>>


(* ---------------------- Identity, IdentityFetcher --------------------- *)
\* notify_all reaches the dispatch thread only while it is inside wait()
NotifyAll == notified' = (notified \/ senderPc = "waiting")

\* IdentityFetcher.fetch_identity with both keys, the n-th call at most:
\* self.pending.put(IdentityRequest(...)), a blocking put without timeout,
\* taken when the queue has room
FetchIdentityUpTo(n) ==
    /\ publisher
    /\ idRequests < n
    /\ Len(idPending) < IdQueueMaxsize
    /\ idRequests' = idRequests + 1
    /\ idPending' = Append(idPending, idRequests + 1)
    /\ UNCHANGED <<cfgVars, queueVars, senderVars, histVars, identityVars,
                   idPc, idCur, clientVars, producerVars>>

FetchIdentity == FetchIdentityUpTo(MaxIdRequests)

\* variant: the request is enqueued although a key is missing
FetchIdentityMissingKey_Enqueues ==
    /\ publisher
    /\ idRequests < MaxIdRequests
    /\ Len(idPending) < IdQueueMaxsize
    /\ idRequests' = idRequests + 1
    /\ idPending' = Append(idPending, idRequests + 1)
    /\ UNCHANGED <<cfgVars, queueVars, senderVars, histVars, identityVars,
                   idPc, idCur, clientVars, producerVars>>

\* fetch_identity without access_key or secret_key: logs and returns
FetchIdentityMissingKey ==
    /\ publisher
    /\ idRequests < MaxIdRequests
    /\ idRequests' = idRequests + 1
    /\ UNCHANGED <<cfgVars, queueVars, senderVars, histVars, identityVars,
                   idPending, idPc, idCur, clientVars, producerVars>>

\* IdentityFetcher._sender: ev = self.pending.get()
IdGet ==
    /\ idPc = "get"
    /\ idPending # <<>>
    /\ idPending' = Tail(idPending)
    /\ IF Head(idPending) = None
       THEN idPc' = "done" /\ UNCHANGED idCur
       ELSE idPc' = "sts" /\ idCur' = Head(idPending)
    /\ UNCHANGED <<cfgVars, queueVars, senderVars, histVars, identityVars,
                   idRequests, clientVars, producerVars>>

\* get_caller_identity returned; Identity.set takes the mutex, writes user
IdSetUser ==
    /\ idPc = "sts"
    /\ user' = idCur
    /\ idPc' = "set_role"
    /\ UNCHANGED <<cfgVars, queueVars, senderVars, histVars, role, account,
                   error, idPending, idCur, idRequests, clientVars,
                   producerVars>>

\* Identity.set: self.role = role
IdSetRole ==
    /\ idPc = "set_role"
    /\ role' = idCur
    /\ idPc' = "set_account"
    /\ UNCHANGED <<cfgVars, queueVars, senderPc, events, overdue, shutdown,
                   todo, notified, transport_result, histVars, user, account, error, idPending,
                   idCur, idRequests, clientVars, producerVars>>

\* Identity.set: self.account = account; notify_all(); mutex released
IdSetAccount ==
    /\ idPc = "set_account"
    /\ account' = idCur
    /\ NotifyAll
    /\ idPc' = "get"
    /\ UNCHANGED <<cfgVars, queueVars, senderPc, events, overdue, shutdown,
                   todo, transport_result, histVars, user, role, error, idPending, idCur,
                   idRequests, clientVars, producerVars>>

\* variant: set_error also resets the role
IdSetError_ClearsRole ==
    /\ idPc = "sts"
    /\ error' = idCur
    /\ role' = None
    /\ NotifyAll
    /\ idPc' = "get"
    /\ UNCHANGED <<cfgVars, queueVars, senderPc, events, overdue, shutdown,
                   todo, transport_result, histVars, user, account,
                   idPending, idCur, idRequests, clientVars, producerVars>>

\* the lookup raised: Identity.set_error(e)
IdSetError ==
    /\ idPc = "sts"
    /\ error' = idCur
    /\ NotifyAll
    /\ idPc' = "get"
    /\ UNCHANGED <<cfgVars, queueVars, senderPc, events, overdue, shutdown,
                   todo, transport_result, histVars, user, role, account, idPending, idCur,
                   idRequests, clientVars, producerVars>>

(* ------------------ Client.flush, Client.close ------------------------ *)
\* Client.flush() enters Publisher.close()
ClientFlush ==
    /\ clPc = "idle"
    /\ publisher
    /\ flushes < MaxFlushes
    /\ flushes' = flushes + 1
    /\ clOp' = "flush"
    /\ clPc' = "put_sentinel"
    /\ enqueued_before' = accepted
    /\ UNCHANGED <<cfgVars, queueVars, senderVars, sends, flushed,
                   resp_dropped, identityVars, fetcherVars, publisher,
                   producerVars>>

\* Client.close() enters Publisher.close()
ClientClose ==
    /\ clPc = "idle"
    /\ publisher
    /\ clOp' = "close"
    /\ clPc' = "put_sentinel"
    /\ UNCHANGED <<cfgVars, queueVars, senderVars, histVars, identityVars,
                   fetcherVars, publisher, flushes, producerVars>>

\* Publisher.close: self.pending.put(None, True, 10) finds room
ClosePutSentinel ==
    /\ clPc = "put_sentinel"
    /\ Len(pending) < PendingMaxsize
    /\ pending' = Append(pending, None)
    /\ clPc' = "join"
    /\ UNCHANGED <<cfgVars, responses, taken, senderVars, histVars,
                   identityVars, fetcherVars, publisher, clOp, flushes,
                   producerVars>>

\* the dispatch thread can leave the producer queue untouched for 10 s:
\* it has ended, it is about to spend the time inside Transport.send, or
\* it is blocked on the response queue (the identity wait is at most 5 s,
\* the get is immediate on a non-empty queue)
SenderStalled ==
    \/ senderPc \in {"done", "crashed"}
    \/ senderPc = "flush" /\ role # None
    \/ senderPc = "put" /\ ResponsesPutBlocks

\* the put raises queue.Full after 10 s: the sentinel is abandoned
ClosePutSentinelTimeout ==
    /\ clPc = "put_sentinel"
    /\ Len(pending) >= PendingMaxsize
    /\ SenderStalled
    /\ clPc' = "join"
    /\ UNCHANGED <<cfgVars, queueVars, senderVars, histVars, identityVars,
                   fetcherVars, publisher, clOp, flushes, producerVars>>

\* Publisher.close: self._sending_thread.join(), no timeout
CloseJoin ==
    /\ clPc = "join"
    /\ senderPc \in {"done", "crashed"}
    /\ clPc' = "put_marker"
    /\ UNCHANGED <<cfgVars, queueVars, senderVars, histVars, identityVars,
                   fetcherVars, publisher, clOp, flushes, producerVars>>

\* where the controller thread continues after Publisher.close returned
AfterPublisherClose == IF clOp = "flush" THEN "start" ELSE "id_put"

\* Publisher.close: self.responses.put(None, True, 10) finds room
ClosePutMarker ==
    /\ clPc = "put_marker"
    /\ Len(responses) < ResponsesMaxsize
    /\ responses' = Append(responses, NoneMarker)
    /\ clPc' = AfterPublisherClose
    /\ UNCHANGED <<cfgVars, pending, taken, senderVars, histVars,
                   identityVars, fetcherVars, publisher, clOp, flushes,
                   producerVars>>

\* the put raises queue.Full after 10 s: no marker
ClosePutMarkerTimeout ==
    /\ clPc = "put_marker"
    /\ Len(responses) >= ResponsesMaxsize
    /\ clPc' = AfterPublisherClose
    /\ UNCHANGED <<cfgVars, queueVars, senderVars, histVars, identityVars,
                   fetcherVars, publisher, clOp, flushes, producerVars>>

\* Client.flush: self.publisher.start(), a new _sender thread
PublisherStart ==
    /\ clPc = "start"
    /\ senderPc' = "start"
    /\ events' = <<>>
    /\ overdue' = FALSE
    /\ shutdown' = FALSE
    /\ todo' = <<>>
    /\ notified' = FALSE
    /\ transport_result' = "none"
    /\ clPc' = "idle"
    /\ clOp' = "none"
    /\ enqueued_before' = {}
    /\ UNCHANGED <<cfgVars, queueVars, sends, flushed, resp_dropped,
                   identityVars, fetcherVars, publisher, flushes,
                   producerVars>>

\* IdentityFetcher.close: self.pending.put(None, True, 10)
FetcherClosePut ==
    /\ clPc = "id_put"
    /\ IF Len(idPending) < IdQueueMaxsize
       THEN idPending' = Append(idPending, None)
       ELSE UNCHANGED idPending
    /\ clPc' = "id_join"
    /\ UNCHANGED <<cfgVars, queueVars, senderVars, histVars, identityVars,
                   idPc, idCur, idRequests, publisher, clOp, flushes,
                   producerVars>>

\* IdentityFetcher.close: join; then Client.close sets publisher and
\* identity_fetcher to None
FetcherCloseJoin ==
    /\ clPc = "id_join"
    /\ idPc = "done"
    /\ clPc' = "closed"
    /\ publisher' = FALSE
    /\ UNCHANGED <<cfgVars, queueVars, senderVars, histVars, identityVars,
                   fetcherVars, clOp, flushes, producerVars>>

(* --------------------------- specification ---------------------------- *)
Next ==
    \/ ClientSend
    \/ SenderBeginWait
    \/ SenderWake
    \/ Tick
    \/ SenderGet
    \/ SenderTimeout
    \/ SendBatch
    \/ EnqueueResponse
    \/ ResponsesGet
    \/ FetchIdentity
    \/ FetchIdentityMissingKey
    \/ IdGet
    \/ IdSetUser
    \/ IdSetRole
    \/ IdSetAccount
    \/ IdSetError
    \/ ClientClose
    \/ ClosePutSentinel
    \/ ClosePutSentinelTimeout
    \/ CloseJoin
    \/ ClosePutMarker
    \/ ClosePutMarkerTimeout
    \/ FetcherClosePut
    \/ FetcherCloseJoin

\* the application never calls Client.flush()
Spec == Init /\ [][Next]_vars

\* the application may also call Client.flush()
NextFlush ==
    \/ Next
    \/ ClientFlush
    \/ PublisherStart

SpecFlush == Init /\ [][NextFlush]_vars

\* the instrumentation calls fetch_identity for every client it wraps
FetchIdentityBurst == FetchIdentityUpTo(MaxIdBurst)

\* the application creates clients and closes, and sends no event
NextIdentity ==
    \/ FetchIdentityBurst
    \/ IdGet
    \/ IdSetUser
    \/ IdSetRole
    \/ IdSetAccount
    \/ IdSetError
    \/ SenderBeginWait
    \/ SenderWake
    \/ Tick
    \/ SenderGet
    \/ SenderTimeout
    \/ ClientClose
    \/ ClosePutSentinel
    \/ CloseJoin
    \/ ClosePutMarker
    \/ FetcherClosePut
    \/ FetcherCloseJoin

SpecIdentity == Init /\ [][NextIdentity]_vars

\* Client(config) with the defaults of Client.__init__ and of Config:
\* non-blocking send and responses, quiet off, HTTP transport
InitDefault ==
    /\ Init
    /\ ~block_on_send
    /\ ~block_on_response
    /\ ~quiet
    /\ transport_type = "http"

\* a second client is created with other credentials
FetchIdentityRefresh == FetchIdentityUpTo(MaxIdRefresh)

\* the default client while events are sent and identities are looked up
\* more than once
NextRefresh ==
    \/ ClientSend
    \/ SenderBeginWait
    \/ SenderWake
    \/ Tick
    \/ SenderGet
    \/ SenderTimeout
    \/ SendBatch
    \/ EnqueueResponse
    \/ ResponsesGet
    \/ FetchIdentityRefresh
    \/ FetchIdentityMissingKey
    \/ IdGet
    \/ IdSetUser
    \/ IdSetRole
    \/ IdSetAccount
    \/ IdSetError
    \/ ClientClose
    \/ ClosePutSentinel
    \/ ClosePutSentinelTimeout
    \/ CloseJoin
    \/ ClosePutMarker
    \/ ClosePutMarkerTimeout
    \/ FetcherClosePut
    \/ FetcherCloseJoin

SpecRefresh == InitDefault /\ [][NextRefresh]_vars

TypeOK ==
    /\ senderPc \in {"start", "waiting", "loop", "flush", "put", "done",
                     "crashed"}
    /\ Len(pending) <= PendingMaxsize
    /\ Len(responses) <= ResponsesMaxsize
    /\ overdue \in BOOLEAN


(* ---------------------- fairness of the threads ----------------------- *)
\* the dispatch thread, the controller thread inside close() and the
\* identity worker keep running while they can; the producers and the
\* reader of the response queue are the application and owe nothing
SenderStep ==
    \/ SenderBeginWait
    \/ SenderWake
    \/ SenderGet
    \/ SenderTimeout
    \/ SendBatch
    \/ EnqueueResponse

ControllerStep ==
    \/ ClosePutSentinel
    \/ ClosePutSentinelTimeout
    \/ CloseJoin
    \/ ClosePutMarker
    \/ ClosePutMarkerTimeout
    \/ FetcherClosePut
    \/ FetcherCloseJoin

WorkerStep ==
    \/ IdGet
    \/ IdSetUser
    \/ IdSetRole
    \/ IdSetAccount
    \/ IdSetError

FairSpec ==
    /\ Spec
    /\ WF_vars(SenderStep)
    /\ WF_vars(ControllerStep)
    /\ WF_vars(WorkerStep)

(* ------------------------------ claims -------------------------------- *)
IsRecord(r) == r # NoneMarker

\* the response records of the stream, without the end-of-stream markers
StreamRecords == SelectSeq(Stream, IsRecord)

\* Publisher.close() has returned to Client.close / Client.flush
PublisherCloseReturned == clPc \in {"start", "id_put", "id_join", "closed"}

\* the failure records of a whole batch, one per event, in batch order
FailurePerEvent(err, evs) ==
    [k \in 1..Len(evs) |->
        [status_code |-> 0, body |-> "", error |-> err, metadata |-> evs[k]]]

\* a step of the dispatch thread that hands the head of todo to the put
PutStep == senderPc = "put" /\ todo # <<>> /\ todo' # todo

\* the put of the head of todo: on the stream, or dropped on a full queue
HeadPutOrDropped ==
    /\ todo' = Tail(todo)
    /\ Stream' = IF ResponsesFull THEN Stream ELSE Append(Stream, Head(todo))

\* C1: with no overflow and no response dropped, once close() has returned
\* and the dispatch thread has processed every event, the response stream
\* holds exactly one record per accepted event, with that event as metadata.
C1_OneResponsePerEvent ==
    (/\ PublisherCloseReturned
     /\ senderPc = "done"
     /\ pending = <<>>
     /\ ~send_raised
     /\ ~resp_dropped)
    => /\ Len(StreamRecords) = Cardinality(accepted)
       /\ \A e \in accepted :
            \E k \in 1..Len(StreamRecords) : StreamRecords[k].metadata = e

\* C2: when Transport.send returns for a batch of k events, _send_batch
\* hands k records to the response queue, the k-th with the k-th event as
\* metadata, all with the returned status code and body.
C2_SuccessOneRecordPerEvent ==
    [][(senderPc = "flush" /\ transport_result' = "returned"
            /\ senderPc' = "put")
        => /\ Len(todo') = Len(events)
           /\ \A k \in 1..Len(events) :
                /\ todo'[k].metadata = events[k]
                /\ todo'[k].status_code = todo'[1].status_code
                /\ todo'[k].body = todo'[1].body]_vars

\* C3: a batch flushed while Identity.role is None never reaches
\* Transport.send and every event of it gets its own failure record with
\* status_code 0 and the NoIdentityException, put on the response queue
\* unless the queue is full; while the role is unresolved no payload has
\* been sent at all.
C3_IdentityFastFail ==
    /\ [](role = None => sends = <<>>)
    /\ [][(senderPc = "flush" /\ role = None)
            => /\ sends' = sends
               /\ \/ senderPc' = "flush"
                  \/ /\ senderPc' = "put"
                     /\ todo' = FailurePerEvent(NoIdentityException, events)
          ]_vars
    /\ [][(PutStep /\ Head(todo).error = NoIdentityException)
            => HeadPutOrDropped]_vars

C3_Witness ==
    /\ senderPc = "put"
    /\ role = None
    /\ Len(events) = 2
    /\ Len(todo) = 1
    /\ todo[1].error = NoIdentityException
    /\ sends = <<>>
    /\ Len(Stream) = 1
    /\ Stream[1].metadata = events[1]

C5_OverflowResponse ==
    [][(/\ publisher
        /\ nextEv' = nextEv + 1
        /\ Len(pending) >= PendingMaxsize
        /\ ~block_on_send
        /\ ~ResponsesFull)
        => /\ pending' = pending
           /\ responses' = Append(responses,
                [status_code |-> 0, body |-> "", error |-> QueueOverflow,
                 metadata |-> nextEv + 1])]_vars

\* C6: Publisher.send never raises an error to its caller.
C6_SendNeverRaises == ~send_raised

\* C7: every event accepted into the producer queue goes through a flush
\* attempt: once the dispatch thread has ended and the client is closed,
\* no accepted event is left unflushed.
C7_AcceptedFlushed ==
    (clPc = "closed" /\ senderPc = "done") => accepted \subseteq flushed

\* the end-of-stream marker, where present, is the last item of the stream
MarkerLast ==
    \A i \in 1..Len(Stream) : Stream[i] = NoneMarker => i = Len(Stream)

C9_SingleMarkerLast == MarkerLast

\* C10: Publisher.close() always returns.
C10_CloseReturns == (clPc = "put_sentinel") ~> PublisherCloseReturned

\* the Identity object is ready: a lookup has completed with a role or
\* with an error, and the worker is not inside Identity.set
IdentityReady == (role # None \/ error # None) /\ MutexFree

\* C11: once the Identity object is ready, user, role, account and error
\* never change again, whatever identity requests follow.
C11_IdentitySetOnce ==
    [][IdentityReady => identityVars' = identityVars]_vars

\* C12: fetch_identity never makes its caller wait: whenever the application
\* is about to call it with credentials while the identity worker is busy
\* with a lookup or has ended, the call can return at once, also with a full
\* request queue.
C12_FetchNeverBlocks ==
    (publisher /\ idRequests < MaxIdBurst /\ idPc \in {"sts", "done"})
        => ENABLED FetchIdentityBurst

\* the events of a payload, in payload order
PayloadEvents(p) == [k \in 1..Len(p) |-> p[k].ev]

\* C13: Publisher.send appends to the producer queue, the control loop
\* appends the head of the queue to its batch, and the payload handed to
\* Transport.send lists the batch in that order: in every payload the events
\* are in the order of their acceptance (events are numbered as they are
\* submitted) and no event occurs twice.
C13_PayloadFIFO ==
    /\ [](\A i \in 1..Len(sends) : \A k, l \in 1..Len(sends[i]) :
            k < l => sends[i][k].ev < sends[i][l].ev)
    /\ [][sends' # sends
            => /\ Len(sends') = Len(sends) + 1
               /\ SubSeq(sends', 1, Len(sends)) = sends
               /\ PayloadEvents(Last(sends')) = events]_vars
    /\ [][(senderPc = "loop" /\ events' # events)
            => /\ pending # <<>>
               /\ events' = Append(events, Head(pending))
               /\ pending' = Tail(pending)]_vars
    /\ [][accepted' # accepted
            => /\ accepted' = accepted \cup {nextEv'}
               /\ pending' = Append(pending, nextEv')
               /\ \A e \in accepted : e < nextEv']_vars

C13_Witness ==
    /\ Len(sends) = 2
    /\ PayloadEvents(sends[1]) = <<1, 2>>
    /\ PayloadEvents(sends[2]) = <<3>>

\* steps of the control loop, told by what they do to the producer queue
\* and to the batch
PulledEvent ==
    /\ senderPc = "loop"
    /\ pending # <<>>
    /\ Head(pending) # None
    /\ pending' = Tail(pending)
    /\ events' = Append(events, Head(pending))

PulledSentinel ==
    /\ senderPc = "loop"
    /\ pending # <<>>
    /\ Head(pending) = None
    /\ pending' = Tail(pending)
    /\ events' = events

PullTimedOut ==
    /\ senderPc = "loop"
    /\ pending = <<>>
    /\ pending' = pending
    /\ events' = events

\* the control loop starts a flush of a non-empty batch
FlushStarts == senderPc = "loop" /\ senderPc' = "flush" /\ events' # <<>>

\* the size or time trigger, evaluated right after the append
SizeOrTimeTrigger == Len(events') > max_batch_size \/ overdue

\* C14 as stated: a non-empty batch is flushed exactly when, right after an
\* append, its size exceeds max_batch_size or send_frequency has passed
\* since the last flush, or when the pull timed out on an empty queue; no
\* flush starts for any other reason.
C14_FlushIffDue ==
    /\ [][FlushStarts
            => \/ PulledEvent /\ SizeOrTimeTrigger
               \/ PullTimedOut]_vars
    /\ [][PulledEvent => (senderPc' = "flush" <=> SizeOrTimeTrigger)]_vars
    /\ [][(SenderTimeout /\ events # <<>>) => senderPc' = "flush"]_vars

\* C14 amended: a non-empty batch is flushed exactly when, right after an
\* append, its size exceeds max_batch_size or send_frequency has passed on
\* the flush clock, or when the pull timed out on an empty queue, or when the
\* shutdown sentinel was pulled; the flush clock starts with the thread,
\* before the identity wait, and is reset only when a flush has completed
\* or a pull has timed out.
C14_FlushTriggers ==
    /\ [][FlushStarts
            => \/ PulledEvent /\ SizeOrTimeTrigger
               \/ PullTimedOut
               \/ PulledSentinel]_vars
    /\ [][PulledEvent => (senderPc' = "flush" <=> SizeOrTimeTrigger)]_vars
    /\ [][(SenderTimeout /\ events # <<>>) => senderPc' = "flush"]_vars
    /\ [][PulledSentinel
            => senderPc' = IF events # <<>> THEN "flush" ELSE "done"]_vars
    /\ [][(overdue /\ ~overdue')
            => \/ PullTimedOut /\ events = <<>>
               \/ senderPc = "put" /\ senderPc' = "loop"]_vars

\* a batch of one event, below max_batch_size and with no time trigger,
\* is being flushed because the sentinel was pulled
C14_Witness ==
    /\ senderPc = "flush"
    /\ shutdown
    /\ Len(events) = max_batch_size
    /\ ~overdue

\* C15: no event occurs in two payloads handed to Transport.send, nor twice
\* in one; no event goes through _send_batch twice; and when a flush attempt
\* is over, whether it succeeded or failed, the batch is empty.
C15_NoRetry ==
    /\ [](\A i, j \in 1..Len(sends) :
            \A k \in 1..Len(sends[i]) : \A l \in 1..Len(sends[j]) :
                sends[i][k].ev = sends[j][l].ev => (i = j /\ k = l))
    /\ [][(senderPc = "flush" /\ senderPc' # "flush")
            => Range(events) \cap flushed = {}]_vars
    /\ [][(senderPc \in {"flush", "put"} /\ senderPc' \notin {"flush", "put"})
            => events' = <<>>]_vars

\* a payload failed in the transport, its event got its failure record, and
\* the loop went on to send the later events only
C15_Witness ==
    /\ senderPc = "loop"
    /\ events = <<>>
    /\ pending = <<>>
    /\ Len(sends) = 2
    /\ PayloadEvents(sends[1]) = <<1>>
    /\ PayloadEvents(sends[2]) = <<2, 3>>
    /\ Stream # <<>>
    /\ Stream[1].error = TransportException
    /\ Stream[1].metadata = 1

\* C16: the dispatch thread always gets from its identity wait to the pull
\* of the control loop, whether the identity was resolved, the lookup failed
\* or no lookup ever completed; and with an identity error recorded the loop
\* still pulls and brings a batch it has accumulated to a flush.
C16_LeavesIdentityWait ==
    /\ (senderPc \in {"start", "waiting"}) ~> (senderPc = "loop")
    /\ [](error # None /\ senderPc = "loop"
            => ENABLED (SenderGet \/ SenderTimeout))
    /\ (error # None /\ senderPc = "loop" /\ events # <<>>)
            ~> (senderPc = "flush")

\* the lookup failed, the wait was left on the notification of set_error,
\* and the loop is delivering the failure records of a batch
C16_Witness ==
    /\ error # None
    /\ role = None
    /\ notified
    /\ senderPc = "put"
    /\ Len(events) = 2
    /\ todo # <<>>

\* C17: with block_on_response false, a response handed to a full response
\* queue is dropped: the queue and what the application has read stay as
\* they are, the dispatch thread goes on with the next record or back to
\* its loop, it is never kept waiting at the put, and a producer in
\* Publisher.send is neither kept waiting nor changes the response queue.
C17_NonBlockingDrop ==
    /\ [][(~block_on_response /\ ResponsesFull /\ PutStep)
            => /\ responses' = responses
               /\ taken' = taken
               /\ todo' = Tail(todo)
               /\ senderPc' = IF Tail(todo) # <<>> THEN "put"
                              ELSE IF shutdown THEN "done" ELSE "loop"]_vars
    /\ [](~block_on_response /\ senderPc = "put" /\ todo # <<>>
            => ENABLED EnqueueResponse)
    /\ [][(~block_on_response /\ ResponsesFull /\ nextEv' # nextEv)
            => responses' = responses]_vars
    /\ [](~block_on_response /\ ~block_on_send /\ nextEv < MaxEvents
            => ENABLED ClientSend)

\* a record was dropped on the full queue and the dispatch thread is back
\* in its loop with every event flushed
C17_Witness ==
    /\ ~block_on_response
    /\ resp_dropped
    /\ Len(responses) = ResponsesMaxsize
    /\ taken = <<>>
    /\ senderPc = "loop"
    /\ Cardinality(flushed) = MaxEvents

\* C18: a fetch_identity call without access key or secret key leaves the
\* request queue, the identity worker and the Identity object as they are,
\* and a request queue that was never given a request with keys stays empty
\* with the worker idle.
C18_MissingKeyNoOp ==
    /\ [][FetchIdentityMissingKey
            => /\ idPending' = idPending
               /\ idPc' = idPc
               /\ idCur' = idCur
               /\ identityVars' = identityVars
               /\ notified' = notified]_vars
    /\ [][(idRequests' # idRequests /\ idPending' = idPending)
            => (idPc' = idPc /\ identityVars' = identityVars)]_vars

\* the call without keys has been made and the worker has done nothing
\* when the client is closed
C18_Witness ==
    /\ idRequests = MaxIdRequests
    /\ idCur = None
    /\ identityVars = <<None, None, None, None>>
    /\ idPc = "done"
    /\ clPc = "closed"

\* C19: _flush of an empty batch does nothing: _send_batch only ever runs
\* on a non-empty batch, no payload is empty, and a timed-out pull or a
\* pulled sentinel with an empty batch leaves the payloads sent, the
\* response stream and the records to deliver as they were.
C19_EmptyFlushNoOp ==
    /\ [](senderPc \in {"flush", "put"} => events # <<>>)
    /\ [](\A i \in 1..Len(sends) : sends[i] # <<>>)
    /\ [][((PullTimedOut \/ PulledSentinel) /\ events = <<>>)
            => /\ senderPc' \in {"loop", "done"}
               /\ sends' = sends
               /\ flushed' = flushed
               /\ todo' = todo
               /\ Stream' = Stream]_vars

\* the sentinel was pulled with an empty batch: the thread ended without a
\* flush and the stream holds the end marker only
C19_Witness ==
    /\ senderPc = "done"
    /\ ~shutdown
    /\ flushed = {}
    /\ sends = <<>>
    /\ clPc = "closed"
    /\ Stream = <<NoneMarker>>

\* the dispatch thread cannot pull any more: it has ended, or it is kept
\* waiting by a full response queue in blocking response mode
SenderNotRunning ==
    \/ senderPc \in {"done", "crashed"}
    \/ senderPc = "put" /\ ResponsesPutBlocks

\* C20: with block_on_send true, Publisher.send never raises, never produces
\* an overflow record and never discards an event: every event submitted is
\* accepted into the producer queue; on a full queue the caller waits, and
\* while the dispatch thread keeps running the queue gets room for it.
C20_BlockingSendAccepts ==
    /\ [](block_on_send
            => /\ ~send_raised
               /\ accepted = 1..nextEv
               /\ \A k \in 1..Len(Stream) :
                    IsRecord(Stream[k]) => Stream[k].error # QueueOverflow)
    /\ [][(block_on_send /\ nextEv' # nextEv)
            => /\ pending' = Append(pending, nextEv')
               /\ responses' = responses]_vars
    /\ []((block_on_send /\ publisher /\ Len(pending) >= PendingMaxsize)
            => ~ENABLED ClientSend)
    /\ (block_on_send /\ Len(pending) >= PendingMaxsize)
            ~> (Len(pending) < PendingMaxsize \/ SenderNotRunning)

\* the third event was accepted into the full queue once the dispatch
\* thread had pulled the first
C20_Witness ==
    /\ block_on_send
    /\ pending = <<2, 3>>
    /\ events = <<1>>
    /\ senderPc = "loop"
    /\ ~send_raised

\* Client.flush() returns: Publisher.start() has been called
FlushReturns == clOp = "flush" /\ clPc = "start" /\ clPc' = "idle"

\* C21: when Client.flush() returns, every event that had been accepted
\* when it was called has been through _send_batch; and the restarted
\* dispatch thread is not ended by anything left over from the flush: while
\* the client is idle after a flush, the thread has not returned.
C21_FlushDispatchesAll ==
    /\ [][FlushReturns => enqueued_before \subseteq flushed]_vars
    /\ [](flushes > 0 /\ clPc = "idle" /\ clOp = "none"
            => senderPc # "done")

\* C22: a dispatch thread started by Client.flush() that finds the Identity
\* ready leaves its identity wait because of the readiness, not because the
\* 5 s of the wait ran out: it is not left un-notified with the Identity
\* ready.
C22_ReadinessObserved ==
    [][(flushes > 0 /\ clOp # "flush"
            /\ senderPc = "waiting" /\ senderPc' = "loop"
            /\ IdentityReady)
        => notified]_vars

\* C23: every record handed to Transport.send carries the user, role and
\* account of one identity resolution (a resolution writes the number of
\* its request in all three fields): no field is unset and no two differ.
C23_ConsistentTriple ==
    \A i \in 1..Len(sends) : \A k \in 1..Len(sends[i]) :
        /\ sends[i][k].role # None
        /\ sends[i][k].user = sends[i][k].role
        /\ sends[i][k].account = sends[i][k].role

\* the dispatch thread ends in this step
SenderEnds ==
    senderPc \notin {"done", "crashed"} /\ senderPc' \in {"done", "crashed"}

\* C24: the dispatch thread ends only on the shutdown sentinel: by pulling
\* it with an empty batch, or after the flush of the batch it held when it
\* pulled it; no outcome of a flush ends it otherwise.
C24_EndsOnlyOnSentinel ==
    [][SenderEnds => (PulledSentinel \/ shutdown)]_vars

\* C25: the batch of the control loop never holds more than
\* max_batch_size + 1 events, and every payload handed to Transport.send has
\* between 1 and max_batch_size + 1 records.
C25_BatchBounded ==
    /\ Len(events) <= max_batch_size + 1
    /\ \A i \in 1..Len(sends) :
         /\ Len(sends[i]) >= 1
         /\ Len(sends[i]) <= max_batch_size + 1

\* a payload of max_batch_size + 1 records has been sent and the loop is
\* accumulating the next batch
C25_Witness ==
    /\ Len(sends) = 1
    /\ Len(sends[1]) = max_batch_size + 1
    /\ senderPc = "loop"
    /\ Len(events) = 1

\* C26: a role that has been set never becomes None again; set_error
\* changes neither user nor role nor account; and a batch flushed while the
\* role is set goes to Transport.send and gets no NoIdentityException record.
C26_RoleStaysSet ==
    /\ [][role # None => role' # None]_vars
    /\ [][error' # error
            => <<user, role, account>>' = <<user, role, account>>]_vars
    /\ [][(role # None /\ senderPc = "flush" /\ senderPc' # "flush")
            => /\ sends' = Append(sends, Payload(events))
               /\ \A k \in 1..Len(todo') :
                    todo'[k].error # NoIdentityException]_vars

\* the first lookup succeeded, a later one failed, and a batch carrying
\* the role of the first has gone to the transport
C26_Witness ==
    /\ role = 1
    /\ error = 2
    /\ senderPc = "put"
    /\ transport_result # "none"
    /\ Len(sends) = 1
    /\ sends[1][1].role = 1

====
